---------------------------- MODULE Spec2Model ----------------------------
(***************************************************************************)
(* Timer/session engine of the pomodoro-study app (src/app.js).            *)
(*                                                                         *)
(* src/app.js holds two versions of the script: lines 1-502 (the version   *)
(* with the persisted running-timer snapshot, here variant "snapshot") and *)
(* lines 504-926 (the task-list version, here variant "tasklist", whose    *)
(* definitions carry the suffix TL).  A behaviour runs one of the two.     *)
(*                                                                         *)
(* A behaviour starts with the page closed and localStorage as an earlier  *)
(* run of the same version left it; PageLoad runs the script's top level   *)
(* and init().  Handlers are operators from a state record to a state      *)
(* record, composed as the code calls them; one action per event.          *)
(*                                                                         *)
(* The script reads the clock only to form endTimestamp - Date.now() and   *)
(* the date only to compare it with the stored one, so instants and days   *)
(* are kept relative to the present: Date.now() reads DateNow, a stored    *)
(* endTimestamp e is the instant e ms from now, a stored date is "today"   *)
(* or "earlier", and the passing of time moves the stored values.          *)
(***************************************************************************)
EXTENDS Integers, Sequences, FiniteSets, TLC

\* -------------------------------------------------------------- constants
SESSIONS_FOR_LONG_BREAK == 4
TickPeriodMs == 1000        \* setInterval(tick, 1000)
MsPerSecond == 1000         \* timeRemaining * 1000, (endTimestamp - now) / 1000
SecondsPerMinute == 60
DefaultWorkMinutes == 25
DefaultShortBreakMinutes == 5
DefaultLongBreakMinutes == 15
MinMinutes == 1
MaxWorkMinutes == 120
MaxShortBreakMinutes == 30
MaxLongBreakMinutes == 60
NoInterval == 0             \* interval = null (timer ids are positive)
DateNow == 0                \* Date.now(): the present instant

\* ----------------------------------------------------------------- bounds
MaxClockSteps == 3          \* clock steps taken in one behaviour
ClockStepMs == 500          \* longest single advance of the clock
MaxSetBacks == 1            \* backward clock adjustments
ClockSetBackMs == 1000      \* size of one backward adjustment
MaxTimerId == 3             \* ids setInterval can hand out

Modes == {"work", "shortBreak", "longBreak"}

\* new Date().toDateString(): the present day; a stored date naming another
\* day reads "earlier".
Today == "today"
TimerIds == 1..MaxTimerId

\* A JavaScript value that may be null/NaN/absent: <<>> or <<v>>.
None == <<>>
Some(v) == <<v>>

Min(S) == CHOOSE x \in S : \A y \in S : x <= y

\* ------------------------------------------------ strings and conversions
\* A string is a sequence of one-character strings.
DigitChars == <<"0", "1", "2", "3", "4", "5", "6", "7", "8", "9">>
IsDigit(c) == \E d \in 1..10 : DigitChars[d] = c
DigitValue(c) == (CHOOSE d \in 1..10 : DigitChars[d] = c) - 1

RECURSIVE LeadingDigits(_, _)
\* value of the longest prefix of digits of str, continuing from acc
LeadingDigits(str, acc) ==
  IF str = <<>> \/ ~IsDigit(Head(str)) THEN acc
  ELSE LeadingDigits(Tail(str), 10 * acc + DigitValue(Head(str)))

\* parseInt(str): optional sign, then the leading digits; NaN (None) if none.
parseInt(str) ==
  LET neg  == str # <<>> /\ Head(str) = "-"
      body == IF neg THEN Tail(str) ELSE str
  IN  IF body = <<>> \/ ~IsDigit(Head(body)) THEN None
      ELSE Some((IF neg THEN -1 ELSE 1) * LeadingDigits(body, 0))

RECURSIVE NatToString(_)
NatToString(n) ==
  IF n < 10 THEN <<DigitChars[n + 1]>>
  ELSE NatToString(n \div 10) \o <<DigitChars[(n % 10) + 1]>>

\* Number.prototype.toString() of an integer
toString(n) == IF n < 0 THEN <<"-">> \o NatToString(-n) ELSE NatToString(n)

\* x || d for a number x: d when x is NaN, null or 0
OrElse(x, d) == IF x = None \/ x[1] = 0 THEN d ELSE x[1]

\* s || d for a string-or-null s (getItem(...) || "0"): d when null or ""
StrOrElse(x, d) == IF x = None \/ x[1] = <<>> THEN d ELSE x[1]

\* Math.round(n / d) for d > 0: floor(n/d + 1/2)
MathRound(n, d) == (2 * n + d) \div (2 * d)

\* Math.floor(n / d) for d > 0
MathFloor(n, d) == n \div d

clamp(val, min, max) ==
  LET lo == IF max < val THEN max ELSE val   \* Math.min(max, val)
  IN  IF min > lo THEN min ELSE lo           \* Math.max(min, ...)

\* ------------------------------------------------------------------ state
VARIABLES
  variant,            \* which version of the script the page runs
  loaded,             \* the page is open and its script has run
  MODES,              \* MODES[m].duration, seconds
  currentMode, timeRemaining, totalDuration, isRunning, interval,
  sessions, totalFocusMinutes,
  modalActive,        \* settingsModal has class "active"
  storage,            \* localStorage, by key
  timers,             \* live setInterval callbacks: id -> ms until it fires
  elapsed,            \* clock steps taken so far
  setBacks,           \* backward clock adjustments so far
  lastOp,             \* the event handled last
  completeCalls,      \* completeSession() calls made by the last event's
                      \* handler (0 when the last step was not an event)
  shown,              \* <<timeRemaining, totalDuration>> of each updateDisplay()
                      \* call made by the last event's handler
  loadedFrom,         \* localStorage as the page load found it, while that
                      \* load is the last event
  sinceDrop,          \* ms since timeRemaining was last lowered by the
                      \* countdown (at most TickPeriodMs are counted); None
                      \* when it was set anew since
  counted             \* timeRemaining of the countdown a closed page left
                      \* running

vars == <<variant, loaded, MODES, currentMode, timeRemaining, totalDuration,
          isRunning, interval, sessions, totalFocusMinutes, modalActive,
          storage, timers, elapsed, setBacks, lastOp,
          completeCalls, shown, loadedFrom, sinceDrop, counted>>

DefaultModes ==
  [work       |-> DefaultWorkMinutes * SecondsPerMinute,
   shortBreak |-> DefaultShortBreakMinutes * SecondsPerMinute,
   longBreak  |-> DefaultLongBreakMinutes * SecondsPerMinute]

NoTimers == [i \in {} |-> 0]

\* The state a handler works on: the script's variables, localStorage and
\* the live callbacks.
Cur ==
  [MODES |-> MODES, currentMode |-> currentMode,
   timeRemaining |-> timeRemaining, totalDuration |-> totalDuration,
   isRunning |-> isRunning, interval |-> interval, sessions |-> sessions,
   totalFocusMinutes |-> totalFocusMinutes, modalActive |-> modalActive,
   storage |-> storage, timers |-> timers,
   completeCalls |-> completeCalls, shown |-> shown]

\* The state as a handler finds it: nothing called or displayed yet.
Begin == [Cur EXCEPT !.completeCalls = 0, !.shown = {}]

Commit(r) ==
  /\ MODES' = r.MODES
  /\ currentMode' = r.currentMode
  /\ timeRemaining' = r.timeRemaining
  /\ totalDuration' = r.totalDuration
  /\ isRunning' = r.isRunning
  /\ interval' = r.interval
  /\ sessions' = r.sessions
  /\ totalFocusMinutes' = r.totalFocusMinutes
  /\ modalActive' = r.modalActive
  /\ storage' = r.storage
  /\ timers' = r.timers
  /\ completeCalls' = r.completeCalls
  /\ shown' = r.shown

\* --------------------------------------------------- browser collaborators
setItem(s, key, value) == [s EXCEPT !.storage[key] = Some(value)]
removeItem(s, key) == [s EXCEPT !.storage[key] = None]

\* ids are never handed out twice: not a live one, not the one still held
FreeIds(s) == {i \in TimerIds : i \notin DOMAIN s.timers /\ i # s.interval}

\* interval = setInterval(tick, 1000)
setInterval(s) ==
  LET id == Min(FreeIds(s))
  IN  [s EXCEPT !.interval = id,
                !.timers = [i \in DOMAIN s.timers \cup {id} |->
                              IF i = id THEN TickPeriodMs ELSE s.timers[i]]]

\* clearInterval(id): no effect for null or an id that is not live
clearInterval(s, id) ==
  [s EXCEPT !.timers = [i \in DOMAIN s.timers \ {id} |-> s.timers[i]]]


\* playSound(), safeNotify(), updateStats(), showRandomTip(),
\* updateModeButtons(), Notification.requestPermission(): they write none of
\* the variables above.
updateDisplay(s) ==
  [s EXCEPT !.shown = @ \cup {<<s.timeRemaining, s.totalDuration>>}]

\* A property name is looked up on MODES itself, then on Object.prototype,
\* which every object literal inherits from; two of its names stand for all.
ObjectPrototypeNames == {"constructor", "toString"}

\* The value of a property that is absent.
Undefined == "undefined"

\* MODES[mode] is truthy: an own entry, or an inherited function.
HasProperty(mode) == mode \in Modes \/ mode \in ObjectPrototypeNames

\* MODES[mode].duration, for a mode that has the property
duration(s, mode) == IF mode \in Modes THEN s.MODES[mode] ELSE Undefined

\* ------------------------------------------- handlers, snapshot version
\* A settings field is applied when it is a number > 0.
ValidSetting(f) == f # None /\ f[1] > 0

loadSettings(s) ==
  LET saved == s.storage.pomodoro_settings
  IN  IF saved = None THEN s
      ELSE IF "corrupt" \in DOMAIN saved[1]
      THEN removeItem(s, "pomodoro_settings")      \* JSON.parse throws
      ELSE [s EXCEPT !.MODES =
              [m \in Modes |->
                 IF ValidSetting(saved[1][m])
                 THEN saved[1][m][1] * SecondsPerMinute
                 ELSE s.MODES[m]]]

saveTimerState(s) ==
  IF s.isRunning
  THEN setItem(s, "pomodoro_timer_state",
               [endTimestamp  |-> DateNow + s.timeRemaining * MsPerSecond,
                mode          |-> s.currentMode,
                totalDuration |-> s.totalDuration])
  ELSE s

clearTimerState(s) == removeItem(s, "pomodoro_timer_state")

\* restoreTimerState() whose catch block leaves the entry in storage
restoreKeepsCorruptEntry(s) ==
  LET saved == s.storage.pomodoro_timer_state
  IN  IF saved = None THEN [state |-> s, result |-> "false"]
      ELSE IF "corrupt" \in DOMAIN saved[1]
      THEN [state |-> s, result |-> "false"]
      ELSE
        LET state     == saved[1]
            remaining == MathFloor(state.endTimestamp - DateNow, MsPerSecond)
            total     == OrElse(Some(state.totalDuration), s.MODES[state.mode])
        IN  IF remaining <= 0
            THEN [state  |-> [clearTimerState(s) EXCEPT
                                !.currentMode = state.mode,
                                !.totalDuration = total,
                                !.timeRemaining = 0],
                  result |-> "expired"]
            ELSE [state  |-> [s EXCEPT
                                !.currentMode = state.mode,
                                !.totalDuration = total,
                                !.timeRemaining = remaining],
                  result |-> "true"]

\* restoreTimerState() that takes a snapshot for expired only below zero
restoreExpiredBelowZero(s) ==
  LET saved == s.storage.pomodoro_timer_state
  IN  IF saved = None THEN [state |-> s, result |-> "false"]
      ELSE IF "corrupt" \in DOMAIN saved[1]
      THEN [state |-> clearTimerState(s), result |-> "false"]
      ELSE
        LET state     == saved[1]
            remaining == MathFloor(state.endTimestamp - DateNow, MsPerSecond)
            total     == OrElse(Some(state.totalDuration), s.MODES[state.mode])
        IN  IF remaining < 0
            THEN [state  |-> [clearTimerState(s) EXCEPT
                                !.currentMode = state.mode,
                                !.totalDuration = total,
                                !.timeRemaining = 0],
                  result |-> "expired"]
            ELSE [state  |-> [s EXCEPT
                                !.currentMode = state.mode,
                                !.totalDuration = total,
                                !.timeRemaining = remaining],
                  result |-> "true"]

\* state.totalDuration of a parsed snapshot, None when it has no such field
SnapshotTotal(state) ==
  IF "totalDuration" \in DOMAIN state THEN Some(state.totalDuration) ELSE None

\* restoreTimerState(): the state it leaves and the value it returns
\* ("false", "true", "expired").  currentMode = state.mode is assigned
\* before totalDuration; for a snapshot with no totalDuration and a mode
\* MODES has no property of, MODES[state.mode].duration then throws a
\* TypeError and the catch block removes the entry and returns false.
restoreTimerState(s) ==
  LET saved == s.storage.pomodoro_timer_state
  IN  IF saved = None THEN [state |-> s, result |-> "false"]
      ELSE IF "corrupt" \in DOMAIN saved[1]
      THEN [state |-> clearTimerState(s), result |-> "false"]
      ELSE
        LET state     == saved[1]
            remaining == MathFloor(state.endTimestamp - DateNow, MsPerSecond)
            total     == OrElse(SnapshotTotal(state), duration(s, state.mode))
        IN  IF OrElse(SnapshotTotal(state), 0) = 0 /\ ~HasProperty(state.mode)
            THEN [state  |-> clearTimerState([s EXCEPT !.currentMode = state.mode]),
                  result |-> "false"]
            ELSE IF remaining <= 0
            THEN [state  |-> [clearTimerState(s) EXCEPT
                                !.currentMode = state.mode,
                                !.totalDuration = total,
                                !.timeRemaining = 0],
                  result |-> "expired"]
            ELSE [state  |-> [s EXCEPT
                                !.currentMode = state.mode,
                                !.totalDuration = total,
                                !.timeRemaining = remaining],
                  result |-> "true"]

\* checkDailyReset() that zeroes the counters without storing them
checkDailyResetInMemory(s) ==
  IF s.storage.pomodoro_date # Some(Today)
  THEN setItem([s EXCEPT !.sessions = 0, !.totalFocusMinutes = 0],
               "pomodoro_date", Today)
  ELSE s

checkDailyReset(s) ==
  IF s.storage.pomodoro_date # Some(Today)
  THEN LET z == [s EXCEPT !.sessions = 0, !.totalFocusMinutes = 0]
       IN  setItem(setItem(setItem(z, "pomodoro_date", Today),
                           "pomodoro_sessions", <<"0">>),
                   "pomodoro_focus_minutes", <<"0">>)
  ELSE s

\* pause() that flips isRunning instead of clearing it
pauseFlipsRunning(s) ==
  LET cleared == IF s.interval # NoInterval
                 THEN [clearInterval(s, s.interval) EXCEPT !.interval = NoInterval]
                 ELSE s
  IN  clearTimerState([cleared EXCEPT !.isRunning = ~s.isRunning])

\* pause() that leaves the stored snapshot in place
pauseKeepsSnapshot(s) ==
  LET cleared == IF s.interval # NoInterval
                 THEN [clearInterval(s, s.interval) EXCEPT !.interval = NoInterval]
                 ELSE s
  IN  [cleared EXCEPT !.isRunning = FALSE]

pause(s) ==
  LET cleared == IF s.interval # NoInterval
                 THEN [clearInterval(s, s.interval) EXCEPT !.interval = NoInterval]
                 ELSE s
  IN  clearTimerState([cleared EXCEPT !.isRunning = FALSE])

\* switchMode() that keeps the time left of the interval it leaves
switchModeKeepsRemaining(s, mode) ==
  IF ~HasProperty(mode) THEN s
  ELSE updateDisplay([s EXCEPT !.currentMode = mode,
                               !.totalDuration = duration(s, mode)])

switchMode(s, mode) ==
  IF ~HasProperty(mode) THEN s                      \* !MODES[mode]: warn, return
  ELSE updateDisplay([s EXCEPT !.currentMode = mode,
                               !.totalDuration = duration(s, mode),
                               !.timeRemaining = duration(s, mode)])

\* nextMode decided from the count before the increment
NextModeBeforeIncrement(n) ==
  IF (n - 1) % SESSIONS_FOR_LONG_BREAK = 0 THEN "longBreak" ELSE "shortBreak"

\* nextMode in completeSession
NextMode(n) ==
  IF n % SESSIONS_FOR_LONG_BREAK = 0 THEN "longBreak" ELSE "shortBreak"

\* focus minutes taken from the interval's own totalDuration
FocusMinutesOfInterval(s) == MathRound(s.totalDuration, SecondsPerMinute)

\* focusMinutesCompleted in completeSession
FocusMinutesCompleted(s) == MathRound(s.MODES.work, SecondsPerMinute)

\* completeSession() that stores the session count only
completeSessionStoresSessionsOnly(s) ==
  LET p == [pause(s) EXCEPT !.completeCalls = @ + 1]
  IN  IF p.currentMode = "work"
      THEN LET n == p.sessions + 1
               f == p.totalFocusMinutes + FocusMinutesCompleted(p)
               c == [p EXCEPT !.sessions = n, !.totalFocusMinutes = f]
               w == setItem(c, "pomodoro_sessions", toString(n))
           IN  switchMode(w, NextMode(n))
      ELSE switchMode(p, "work")

completeSession(s) ==
  LET p == [pause(s) EXCEPT !.completeCalls = @ + 1]
  IN  IF p.currentMode = "work"
      THEN LET n == p.sessions + 1
               f == p.totalFocusMinutes + FocusMinutesCompleted(p)
               c == [p EXCEPT !.sessions = n, !.totalFocusMinutes = f]
               w == setItem(setItem(c, "pomodoro_sessions", toString(n)),
                            "pomodoro_focus_minutes", toString(f))
           IN  switchMode(w, NextMode(n))
      ELSE switchMode(p, "work")

\* tick that runs the daily reset before it counts down
tickWithDailyReset(s) ==
  LET d == updateDisplay([checkDailyReset(s) EXCEPT !.timeRemaining = @ - 1])
  IN  IF d.timeRemaining <= 0 THEN completeSession(d) ELSE d

\* tick that only stops the timer at zero
tickPausesAtZero(s) ==
  LET d == updateDisplay([s EXCEPT !.timeRemaining = @ - 1])
  IN  IF d.timeRemaining <= 0 THEN pause(d) ELSE d

\* tick that completes only below zero
tickBelowZero(s) ==
  LET d == updateDisplay([s EXCEPT !.timeRemaining = @ - 1])
  IN  IF d.timeRemaining < 0 THEN completeSession(d) ELSE d

tick(s) ==
  LET d == updateDisplay([s EXCEPT !.timeRemaining = @ - 1])
  IN  IF d.timeRemaining <= 0 THEN completeSession(d) ELSE d

\* start() that begins the interval anew
startRestartsInterval(s) ==
  IF ~s.isRunning
  THEN saveTimerState(setInterval([s EXCEPT !.isRunning = TRUE,
                                            !.timeRemaining = s.totalDuration]))
  ELSE pause(s)

\* start() that starts a callback whether or not one is running
startWithoutToggle(s) ==
  saveTimerState(setInterval([s EXCEPT !.isRunning = TRUE]))

start(s) ==
  IF ~s.isRunning
  THEN saveTimerState(setInterval([s EXCEPT !.isRunning = TRUE]))
  ELSE pause(s)

\* reset() that does not stop the timer
resetWithoutPause(s) ==
  LET p == clearTimerState(s)
  IN  updateDisplay([p EXCEPT !.timeRemaining = p.totalDuration])

reset(s) ==
  LET p == clearTimerState(pause(s))
  IN  updateDisplay([p EXCEPT !.timeRemaining = p.totalDuration])

openSettings(s) == [pause(s) EXCEPT !.modalActive = TRUE]

closeSettings(s) == [s EXCEPT !.modalActive = FALSE]

\* work / shortBreak / longBreak in saveSettings, for the input fields
\* holding the strings of `inputs`
ClampedMinutes(inputs) ==
  [work       |-> clamp(OrElse(parseInt(inputs.work), DefaultWorkMinutes),
                        MinMinutes, MaxWorkMinutes),
   shortBreak |-> clamp(OrElse(parseInt(inputs.shortBreak), DefaultShortBreakMinutes),
                        MinMinutes, MaxShortBreakMinutes),
   longBreak  |-> clamp(OrElse(parseInt(inputs.longBreak), DefaultLongBreakMinutes),
                        MinMinutes, MaxLongBreakMinutes)]

\* JSON.stringify({ work, shortBreak, longBreak })
SettingsEntry(inputs) == [m \in Modes |-> Some(ClampedMinutes(inputs)[m])]

saveSettings(s, inputs) ==
  LET m == [k \in Modes |-> ClampedMinutes(inputs)[k] * SecondsPerMinute]
      w == setItem([s EXCEPT !.MODES = m], "pomodoro_settings",
                   SettingsEntry(inputs))
      d == duration(w, s.currentMode)
  IN  IF ~HasProperty(s.currentMode) THEN w   \* MODES[currentMode].duration: TypeError
      ELSE closeSettings(updateDisplay([w EXCEPT !.totalDuration = d,
                                                 !.timeRemaining = d]))

\* The script's top level: the variables as declared, over storage `st`.
TopLevel(st) ==
  [MODES |-> DefaultModes, currentMode |-> "work",
   timeRemaining |-> DefaultModes.work, totalDuration |-> DefaultModes.work,
   isRunning |-> FALSE, interval |-> NoInterval,
   sessions |-> parseInt(StrOrElse(st.pomodoro_sessions, <<"0">>))[1],
   totalFocusMinutes |-> parseInt(StrOrElse(st.pomodoro_focus_minutes, <<"0">>))[1],
   modalActive |-> FALSE, storage |-> st, timers |-> NoTimers,
   completeCalls |-> 0, shown |-> {}]

\* init() that resumes without starting the tick callback
initResumesWithoutCallback(s) ==
  LET r == restoreTimerState(checkDailyReset(loadSettings(s)))
      t == r.state
  IN  IF r.result = "expired" THEN completeSession(updateDisplay(t))
      ELSE IF r.result = "true"
      THEN [updateDisplay(t) EXCEPT !.isRunning = TRUE]
      ELSE updateDisplay([t EXCEPT !.timeRemaining = t.MODES[t.currentMode],
                                   !.totalDuration = t.MODES[t.currentMode]])

\* init() on a page with (label) or without a #modeLabel element.  With
\* the element, updateModeButtons() reads MODES[currentMode].label, and for a
\* currentMode MODES has no property of that throws a TypeError which ends
\* init(); so does MODES[currentMode].duration of the cold start.
initLabelled(s, label) ==
  LET r == restoreTimerState(checkDailyReset(loadSettings(s)))
      t == r.state
      throws == label /\ ~HasProperty(t.currentMode)
  IN  IF r.result = "expired"
      THEN IF throws THEN t ELSE completeSession(updateDisplay(t))
      ELSE IF r.result = "true"
      THEN IF throws THEN t
           ELSE setInterval([updateDisplay(t) EXCEPT !.isRunning = TRUE])
      ELSE IF ~HasProperty(t.currentMode) THEN t
      ELSE updateDisplay([t EXCEPT !.timeRemaining = duration(t, t.currentMode),
                                   !.totalDuration = duration(t, t.currentMode)])

init(s) == initLabelled(s, TRUE)

\* ------------------------------------------- handlers, task-list version
\* s.work * 60: null * 60 is 0
loadSettingsTL(s) ==
  LET saved == s.storage.pomodoro_settings
  IN  IF saved = None THEN s
      ELSE [s EXCEPT !.MODES =
              [m \in Modes |->
                 (IF saved[1][m] = None THEN 0 ELSE saved[1][m][1])
                   * SecondsPerMinute]]

updateTimerStateTL(s) ==
  updateDisplay([s EXCEPT !.totalDuration = duration(s, s.currentMode),
                          !.timeRemaining = duration(s, s.currentMode)])

pauseTL(s) == [clearInterval(s, s.interval) EXCEPT !.isRunning = FALSE]

\* No check of mode: for a name MODES has no property of,
\* MODES[currentMode].duration in updateTimerState() throws a TypeError and
\* the handler ends there, currentMode already assigned.
switchModeTL(s, mode) ==
  LET c == [s EXCEPT !.currentMode = mode]
  IN  IF HasProperty(mode) THEN updateTimerStateTL(c) ELSE c

completeSessionTL(s) ==
  LET p == [pauseTL(s) EXCEPT !.completeCalls = @ + 1]
  IN  IF p.currentMode = "work"
      THEN LET n == p.sessions + 1
               f == p.totalFocusMinutes + MathRound(p.MODES.work, SecondsPerMinute)
               c == [p EXCEPT !.sessions = n, !.totalFocusMinutes = f]
               w == setItem(setItem(c, "pomodoro_sessions", toString(n)),
                            "pomodoro_focus_minutes", toString(f))
           IN  switchModeTL(w, IF n % 4 = 0 THEN "longBreak" ELSE "shortBreak")
      ELSE switchModeTL(p, "work")

tickTL(s) ==
  LET d == updateDisplay([s EXCEPT !.timeRemaining = @ - 1])
  IN  IF d.timeRemaining <= 0 THEN completeSessionTL(d) ELSE d

startTL(s) ==
  IF ~s.isRunning THEN setInterval([s EXCEPT !.isRunning = TRUE])
  ELSE pauseTL(s)

resetTL(s) ==
  LET p == pauseTL(s)
  IN  updateDisplay([p EXCEPT !.timeRemaining = p.totalDuration])

openSettingsTL(s) == [pauseTL(s) EXCEPT !.modalActive = TRUE]

\* JSON.stringify of the three parseInt results; NaN is written as null
SettingsEntryTL(inputs) == [m \in Modes |-> parseInt(inputs[m])]

\* the save button's listener
saveSettingsTL(s, inputs) ==
  LET m == [work       |-> OrElse(parseInt(inputs.work), DefaultWorkMinutes)
                             * SecondsPerMinute,
            shortBreak |-> OrElse(parseInt(inputs.shortBreak), DefaultShortBreakMinutes)
                             * SecondsPerMinute,
            longBreak  |-> OrElse(parseInt(inputs.longBreak), DefaultLongBreakMinutes)
                             * SecondsPerMinute]
      w == setItem([s EXCEPT !.MODES = m], "pomodoro_settings",
                   SettingsEntryTL(inputs))
  IN  updateTimerStateTL([w EXCEPT !.modalActive = FALSE])

initTL(s) == updateTimerStateTL(checkDailyReset(loadSettingsTL(s)))

\* ------------------------------------------------------- initial storage
Str1 == <<"1">>
InputTriples ==
  { [work |-> <<"9", "9", "9", "9">>, shortBreak |-> <<"0">>,
     longBreak |-> <<"a", "b", "c">>],
    [work |-> <<"a", "b", "c">>, shortBreak |-> <<"0">>, longBreak |-> Str1] }

\* What an earlier save left: nothing, or the entry for inputs that make the
\* work duration differ from the default.
StoredSettings(v) ==
  IF v = "snapshot"
  THEN {None, Some(SettingsEntry(
                [work |-> <<"9", "9", "9", "9">>, shortBreak |-> <<"0">>,
                 longBreak |-> <<"a", "b", "c">>]))}
  ELSE {None, Some(SettingsEntryTL(
                [work |-> <<"a", "b", "c">>, shortBreak |-> <<"0">>,
                 longBreak |-> Str1]))}

\* A snapshot an earlier run left: its mode, and the ms until it expires.
SnapshotChoices ==
  { [m |-> "work", e |-> 500], [m |-> "work", e |-> 1500],
    [m |-> "shortBreak", e |-> 1500] }
StoredSnapshots(v) ==
  IF v = "snapshot"
  THEN {None, Some([corrupt |-> TRUE])} \cup
       { Some([endTimestamp |-> c.e, mode |-> c.m,
               totalDuration |-> DefaultModes[c.m]]) : c \in SnapshotChoices }
  ELSE {None}

\* localStorage before the first run ever.
EmptyStorage ==
  [pomodoro_settings |-> None, pomodoro_timer_state |-> None,
   pomodoro_sessions |-> None, pomodoro_focus_minutes |-> None,
   pomodoro_date |-> None]

\* The first run writes the date and both counters, so later runs find all
\* three: here three sessions of 25 minutes, counted today or on an earlier
\* day.
InitStorage(v) ==
  {EmptyStorage} \cup
  { [pomodoro_settings |-> st, pomodoro_timer_state |-> sn,
     pomodoro_sessions |-> Some(<<"3">>),
     pomodoro_focus_minutes |-> Some(<<"7", "5">>),
     pomodoro_date |-> d]
      : st \in StoredSettings(v), sn \in StoredSnapshots(v),
        d \in {Some(Today), Some("earlier")} }

\* The script's variables while the page is closed.
Unloaded(st) ==
  [TopLevel(st) EXCEPT !.sessions = 0, !.totalFocusMinutes = 0]

Init ==
  /\ variant \in {"snapshot", "tasklist"}
  /\ loaded = FALSE
  /\ storage \in InitStorage(variant)
  /\ MODES = DefaultModes
  /\ currentMode = "work"
  /\ timeRemaining = DefaultModes.work
  /\ totalDuration = DefaultModes.work
  /\ isRunning = FALSE
  /\ interval = NoInterval
  /\ sessions = 0
  /\ totalFocusMinutes = 0
  /\ modalActive = FALSE
  /\ timers = NoTimers
  /\ elapsed = 0
  /\ setBacks = 0
  /\ lastOp = "none"
  /\ completeCalls = 0
  /\ shown = {}
  /\ loadedFrom = None
  /\ sinceDrop = None
  /\ counted = None

\* ---------------------------------------------------------------- actions
IsSnapshot == variant = "snapshot"
env == <<variant, loaded, elapsed, setBacks>>

\* sinceDrop after the handler of event op left the state r: a tick lowers
\* timeRemaining, start/pause and the settings dialog leave it alone, every
\* other handler sets it anew.
DropAfter(op, r) ==
  IF op = "tick" THEN (IF r.completeCalls = 0 THEN Some(0) ELSE None)
  ELSE IF op \in {"start", "open", "close"} THEN sinceDrop
  ELSE None

\* An event whose handler leaves the state r.
Handle(op, r) ==
  /\ Commit(r) /\ lastOp' = op
  /\ loadedFrom' = None /\ counted' = None
  /\ sinceDrop' = DropAfter(op, r)
  /\ UNCHANGED env

CanStart == isRunning \/ FreeIds(Begin) # {}

\* sinceDrop after a page load left the state r: a resumed countdown is
\* lowered when it shows less than the page was closed with.
DropAfterLoad(r) ==
  IF ~r.isRunning THEN None
  ELSE IF counted # None /\ r.timeRemaining < counted[1] THEN Some(0)
  ELSE sinceDrop

PageLoad ==
  /\ ~loaded /\ IsSnapshot
  /\ Commit(init(TopLevel(storage)))
  /\ loaded' = TRUE /\ lastOp' = "load"
  /\ loadedFrom' = Some(storage) /\ counted' = None
  /\ sinceDrop' = DropAfterLoad(init(TopLevel(storage)))
  /\ UNCHANGED <<variant, elapsed, setBacks>>

StartClick == loaded /\ IsSnapshot /\ CanStart /\ Handle("start", start(Begin))

SpaceKey ==
  loaded /\ IsSnapshot /\ ~modalActive /\ CanStart /\ Handle("start", start(Begin))

ResetClick == loaded /\ IsSnapshot /\ Handle("reset", reset(Begin))

KeyR == loaded /\ IsSnapshot /\ ~modalActive /\ Handle("reset", reset(Begin))

ModeClick ==
  /\ loaded /\ IsSnapshot
  /\ \E m \in Modes : Handle("mode", switchMode(pause(Begin), m))

OpenSettings == loaded /\ IsSnapshot /\ Handle("open", openSettings(Begin))

CancelSettings ==
  loaded /\ IsSnapshot /\ modalActive /\ Handle("close", closeSettings(Begin))

SaveClick ==
  /\ loaded /\ IsSnapshot /\ modalActive
  /\ \E i \in InputTriples : Handle("save", saveSettings(Begin, i))

\* A callback that fired and is still live fires again a period later.
Rearm(r, id) ==
  IF id \in DOMAIN r.timers
  THEN [r EXCEPT !.timers[id] = TickPeriodMs]
  ELSE r

Tick ==
  /\ loaded /\ IsSnapshot
  /\ \E id \in DOMAIN timers :
       timers[id] = 0 /\ Handle("tick", Rearm(tick(Begin), id))

PageLoadTL ==
  /\ ~loaded /\ ~IsSnapshot
  /\ Commit(initTL(TopLevel(storage)))
  /\ loaded' = TRUE /\ lastOp' = "load"
  /\ loadedFrom' = Some(storage) /\ counted' = None /\ sinceDrop' = None
  /\ UNCHANGED <<variant, elapsed, setBacks>>

StartClickTL == loaded /\ ~IsSnapshot /\ CanStart /\ Handle("start", startTL(Begin))

ResetClickTL == loaded /\ ~IsSnapshot /\ Handle("reset", resetTL(Begin))

ModeClickTL ==
  /\ loaded /\ ~IsSnapshot
  /\ \E m \in Modes : Handle("mode", switchModeTL(pauseTL(Begin), m))

OpenSettingsTL == loaded /\ ~IsSnapshot /\ Handle("open", openSettingsTL(Begin))

CancelSettingsTL ==
  loaded /\ ~IsSnapshot /\ modalActive /\ Handle("close", closeSettings(Begin))

SaveClickTL ==
  /\ loaded /\ ~IsSnapshot /\ modalActive
  /\ \E i \in InputTriples : Handle("save", saveSettingsTL(Begin, i))

TickTL ==
  /\ loaded /\ ~IsSnapshot
  /\ \E id \in DOMAIN timers :
       timers[id] = 0 /\ Handle("tick", Rearm(tickTL(Begin), id))

\* Closing the tab (or reloading): the script's variables and its callbacks
\* are gone, localStorage stays.
ClosePage ==
  /\ loaded
  /\ Commit(Unloaded(storage))
  /\ loaded' = FALSE /\ lastOp' = "unload"
  /\ loadedFrom' = None
  /\ counted' = IF IsSnapshot /\ isRunning THEN Some(timeRemaining) ELSE None
  /\ sinceDrop' = IF IsSnapshot /\ isRunning THEN sinceDrop ELSE None
  /\ UNCHANGED <<variant, elapsed, setBacks>>

HasSnapshot ==
  /\ storage.pomodoro_timer_state # None
  /\ "corrupt" \notin DOMAIN storage.pomodoro_timer_state[1]

\* The stored snapshot with its endTimestamp moved by d ms.
ShiftSnapshot(st, d) ==
  IF st.pomodoro_timer_state # None
     /\ "corrupt" \notin DOMAIN st.pomodoro_timer_state[1]
  THEN [st EXCEPT !.pomodoro_timer_state[1].endTimestamp = @ + d]
  ELSE st

\* Time passes, up to the next callback that is due.  Only a live callback
\* or a stored endTimestamp makes the passing of time visible to the script.
Elapse ==
  /\ elapsed < MaxClockSteps
  /\ DOMAIN timers # {} \/ HasSnapshot
  /\ LET d == Min({ClockStepMs} \cup {timers[i] : i \in DOMAIN timers})
     IN  /\ d > 0
         /\ storage' = ShiftSnapshot(storage, -d)
         /\ timers' = [i \in DOMAIN timers |-> timers[i] - d]
         /\ sinceDrop' = IF sinceDrop = None THEN None
                         ELSE Some(Min({TickPeriodMs, sinceDrop[1] + d}))
  /\ elapsed' = elapsed + 1
  /\ lastOp' = "elapse"
  /\ loadedFrom' = None /\ completeCalls' = 0 /\ shown' = {}
  /\ UNCHANGED <<variant, loaded, MODES, currentMode, timeRemaining,
                 totalDuration, isRunning, interval, sessions,
                 totalFocusMinutes, modalActive, setBacks, counted>>

\* The wall clock is set back (clock synchronisation, the user) while the
\* page is closed; callbacks run on their own clock.
ClockSetBack ==
  /\ ~loaded /\ HasSnapshot
  /\ setBacks < MaxSetBacks
  /\ setBacks' = setBacks + 1
  /\ storage' = ShiftSnapshot(storage, ClockSetBackMs)
  /\ lastOp' = "setback"
  /\ UNCHANGED <<variant, loaded, MODES, currentMode, timeRemaining,
                 totalDuration, isRunning, interval, sessions,
                 totalFocusMinutes, modalActive, timers,
                 elapsed, completeCalls, shown, loadedFrom, sinceDrop,
                 counted>>

\* The calendar day changes while the page is open.
Midnight ==
  /\ loaded
  /\ storage.pomodoro_date = Some(Today)
  /\ storage' = [storage EXCEPT !.pomodoro_date = Some("earlier")]
  /\ lastOp' = "midnight"
  /\ loadedFrom' = None /\ completeCalls' = 0 /\ shown' = {}
  /\ UNCHANGED <<variant, loaded, MODES, currentMode, timeRemaining,
                 totalDuration, isRunning, interval, sessions,
                 totalFocusMinutes, modalActive, timers,
                 elapsed, setBacks, sinceDrop, counted>>

Next ==
  \/ PageLoad \/ StartClick \/ SpaceKey \/ ResetClick \/ KeyR \/ ModeClick
  \/ OpenSettings \/ CancelSettings \/ SaveClick \/ Tick
  \/ PageLoadTL \/ StartClickTL \/ ResetClickTL \/ ModeClickTL
  \/ OpenSettingsTL \/ CancelSettingsTL \/ SaveClickTL \/ TickTL
  \/ ClosePage \/ Elapse \/ ClockSetBack \/ Midnight

Spec == Init /\ [][Next]_vars

\* ---------------------------------------- mode buttons of any data-mode
\* data-mode values other than the three modes: one MODES has no property
\* of, and the names it inherits.
OtherModes == {"bogus"} \cup ObjectPrototypeNames

\* A click on a .mode-btn whose data-mode is not one of the three modes.
ModeClickOther ==
  /\ loaded /\ IsSnapshot
  /\ \E m \in OtherModes : Handle("othermode", switchMode(pause(Begin), m))

ModeClickOtherTL ==
  /\ loaded /\ ~IsSnapshot
  /\ \E m \in OtherModes : Handle("othermode", switchModeTL(pauseTL(Begin), m))

\* With currentMode naming none of the three modes the page is followed no
\* further than to the next mode click or to its closing.
NextAnyMode ==
  \/ currentMode \in Modes /\ Next
  \/ ModeClickOther \/ ModeClickOtherTL
  \/ currentMode \notin Modes /\ (ModeClick \/ ModeClickTL \/ ClosePage)

SpecAnyMode == Init /\ [][NextAnyMode]_vars

TypeOK ==
  /\ currentMode \in Modes
  /\ timeRemaining \in Int /\ totalDuration \in Int
  /\ isRunning \in BOOLEAN
  /\ DOMAIN timers \subseteq TimerIds

\* ------------------------------------- settings this version did not write
\* A settings entry as another version of the script or the browser's tools
\* can leave it: work above its range, shortBreak missing, longBreak 0.
ForeignSettings ==
  [work |-> Some(9999), shortBreak |-> None, longBreak |-> Some(0)]

InitAnySettings ==
  /\ variant \in {"snapshot", "tasklist"}
  /\ loaded = FALSE
  /\ storage \in InitStorage(variant) \cup
                  { [st EXCEPT !.pomodoro_settings = Some(ForeignSettings)]
                      : st \in InitStorage(variant) \ {EmptyStorage} }
  /\ MODES = DefaultModes
  /\ currentMode = "work"
  /\ timeRemaining = DefaultModes.work
  /\ totalDuration = DefaultModes.work
  /\ isRunning = FALSE
  /\ interval = NoInterval
  /\ sessions = 0
  /\ totalFocusMinutes = 0
  /\ modalActive = FALSE
  /\ timers = NoTimers
  /\ elapsed = 0
  /\ setBacks = 0
  /\ lastOp = "none"
  /\ completeCalls = 0
  /\ shown = {}
  /\ loadedFrom = None
  /\ sinceDrop = None
  /\ counted = None

SpecAnySettings == InitAnySettings /\ [][Next]_vars

\* ------------------------------------------------- failing peripherals
\* What can fail while a session completes: "sound", no AudioContext can be
\* made; "notification", the Notification constructor throws; "storage",
\* localStorage.setItem() throws (quota, private mode).
Faults == {"sound", "notification", "storage"}

\* completeSession() while the peripherals of f fail.  playSound() and
\* safeNotify() catch what they meet; the localStorage.setItem() calls are
\* in no try block, and what the first of them throws ends the handler.
completeSessionFailing(s, f) ==
  LET p == [pause(s) EXCEPT !.completeCalls = @ + 1]
  IN  IF p.currentMode = "work"
      THEN LET n == p.sessions + 1
               m == p.totalFocusMinutes + FocusMinutesCompleted(p)
               c == [p EXCEPT !.sessions = n, !.totalFocusMinutes = m]
               w == setItem(setItem(c, "pomodoro_sessions", toString(n)),
                            "pomodoro_focus_minutes", toString(m))
           IN  IF "storage" \in f THEN c
               ELSE switchMode(w, NextMode(n))
      ELSE switchMode(p, "work")

tickFailing(s, f) ==
  LET d == updateDisplay([s EXCEPT !.timeRemaining = @ - 1])
  IN  IF d.timeRemaining <= 0 THEN completeSessionFailing(d, f) ELSE d

\* The task-list version: playSound() catches, notifyUser() does not, and
\* it is called before switchMode().
completeSessionFailingTL(s, f) ==
  LET p == [pauseTL(s) EXCEPT !.completeCalls = @ + 1]
  IN  IF p.currentMode = "work"
      THEN LET n == p.sessions + 1
               m == p.totalFocusMinutes + MathRound(p.MODES.work, SecondsPerMinute)
               c == [p EXCEPT !.sessions = n, !.totalFocusMinutes = m]
               w == setItem(setItem(c, "pomodoro_sessions", toString(n)),
                            "pomodoro_focus_minutes", toString(m))
           IN  IF "storage" \in f THEN c
               ELSE IF "notification" \in f THEN w
               ELSE switchModeTL(w, IF n % 4 = 0 THEN "longBreak" ELSE "shortBreak")
      ELSE IF "notification" \in f THEN p
      ELSE switchModeTL(p, "work")

tickFailingTL(s, f) ==
  LET d == updateDisplay([s EXCEPT !.timeRemaining = @ - 1])
  IN  IF d.timeRemaining <= 0 THEN completeSessionFailingTL(d, f) ELSE d

\* The tick that completes a session, some peripherals failing.
TickFailing ==
  /\ loaded /\ IsSnapshot /\ timeRemaining <= 1
  /\ \E id \in DOMAIN timers, f \in (SUBSET Faults) \ {{}} :
       timers[id] = 0 /\ Handle("tickfailing", Rearm(tickFailing(Begin, f), id))

TickFailingTL ==
  /\ loaded /\ ~IsSnapshot /\ timeRemaining <= 1
  /\ \E id \in DOMAIN timers, f \in (SUBSET Faults) \ {{}} :
       timers[id] = 0 /\ Handle("tickfailing", Rearm(tickFailingTL(Begin, f), id))

NextFailing == Next \/ TickFailing \/ TickFailingTL

SpecFailing == Init /\ [][NextFailing]_vars

\* ------------------------------------- snapshots this version did not write
\* Snapshot entries that parse but name no mode: expired (500 ms ahead) or
\* not (1500 ms ahead), with or without a totalDuration field.
ForeignSnapshots ==
  { [endTimestamp |-> e, mode |-> "bogus", totalDuration |-> DefaultModes.work]
      : e \in {ClockStepMs, ClockStepMs + TickPeriodMs} } \cup
  { [endTimestamp |-> e, mode |-> "bogus"]
      : e \in {ClockStepMs, ClockStepMs + TickPeriodMs} }

InitAnySnapshot ==
  /\ variant \in {"snapshot", "tasklist"}
  /\ loaded = FALSE
  /\ storage \in InitStorage(variant) \cup
                  (IF variant = "snapshot"
                   THEN { [st EXCEPT !.pomodoro_timer_state = Some(sn)]
                            : st \in InitStorage(variant) \ {EmptyStorage},
                              sn \in ForeignSnapshots }
                   ELSE {})
  /\ MODES = DefaultModes
  /\ currentMode = "work"
  /\ timeRemaining = DefaultModes.work
  /\ totalDuration = DefaultModes.work
  /\ isRunning = FALSE
  /\ interval = NoInterval
  /\ sessions = 0
  /\ totalFocusMinutes = 0
  /\ modalActive = FALSE
  /\ timers = NoTimers
  /\ elapsed = 0
  /\ setBacks = 0
  /\ lastOp = "none"
  /\ completeCalls = 0
  /\ shown = {}
  /\ loadedFrom = None
  /\ sinceDrop = None
  /\ counted = None

\* The load of a page that has no #modeLabel element.
PageLoadUnlabelled ==
  /\ ~loaded /\ IsSnapshot
  /\ Commit(initLabelled(TopLevel(storage), FALSE))
  /\ loaded' = TRUE /\ lastOp' = "load"
  /\ loadedFrom' = Some(storage) /\ counted' = None
  /\ sinceDrop' = DropAfterLoad(initLabelled(TopLevel(storage), FALSE))
  /\ UNCHANGED <<variant, elapsed, setBacks>>

NextAnySnapshot == Next \/ PageLoadUnlabelled

SpecAnySnapshot == InitAnySnapshot /\ [][NextAnySnapshot]_vars

\* ------------------------------------------------ an undisturbed countdown
\* Time passes on the open page, up to the next callback that is due, and
\* goes on passing as long as a callback is live.
TimePasses ==
  /\ loaded /\ DOMAIN timers # {}
  /\ LET d == Min({ClockStepMs} \cup {timers[i] : i \in DOMAIN timers})
     IN  /\ d > 0
         /\ storage' = ShiftSnapshot(storage, -d)
         /\ timers' = [i \in DOMAIN timers |-> timers[i] - d]
         /\ sinceDrop' = IF sinceDrop = None THEN None
                         ELSE Some(Min({TickPeriodMs, sinceDrop[1] + d}))
  /\ lastOp' = "elapse"
  /\ loadedFrom' = None /\ completeCalls' = 0 /\ shown' = {}
  /\ UNCHANGED <<variant, loaded, MODES, currentMode, timeRemaining,
                 totalDuration, isRunning, interval, sessions,
                 totalFocusMinutes, modalActive, elapsed, setBacks, counted>>

\* The one user action: the start button, on the timer as the page load
\* left it, not running.
StartOnce == lastOp = "load" /\ ~isRunning /\ (StartClick \/ StartClickTL)

\* A page load, a start unless the load resumed a snapshot, and from then on
\* only the clock and the tick callback.
NextCountdown ==
  \/ PageLoad \/ PageLoadTL \/ StartOnce
  \/ Tick \/ TickTL \/ TimePasses

\* setInterval() calls tick again and again, and time does not stop.
SpecCountdown ==
  /\ Init /\ [][NextCountdown]_vars
  /\ WF_vars(Tick) /\ WF_vars(TickTL) /\ WF_vars(TimePasses)

\* ----------------------------------------------------------------- claims
\* The snapshot in storage, when there is one that parses.
StoredSnapshot == storage.pomodoro_timer_state[1]

\* A step that completes an interval: a tick, or a page load that finds the
\* stored snapshot expired.
Completes == lastOp' \in {"tick", "load"} /\ completeCalls' > 0

\* The mode of the interval such a step completes.
CompletedMode ==
  IF lastOp' = "tick" THEN currentMode
  ELSE IF HasSnapshot THEN StoredSnapshot.mode
  ELSE "none"

\* sessions and totalFocusMinutes as such a step finds them: the variables
\* at a tick; at a page load the stored counters, or 0 after the daily reset.
CountersBefore ==
  IF lastOp' = "tick" THEN <<sessions, totalFocusMinutes>>
  ELSE IF storage.pomodoro_date = Some(Today)
  THEN <<parseInt(StrOrElse(storage.pomodoro_sessions, <<"0">>))[1],
         parseInt(StrOrElse(storage.pomodoro_focus_minutes, <<"0">>))[1]>>
  ELSE <<0, 0>>

\* C1: a work completion that makes sessions a multiple of 4 leaves the timer
\* in longBreak, every other work completion leaves it in shortBreak, and the
\* completion of a shortBreak or longBreak leaves it in work.
C1_NextModeAfterCompletion ==
  [][Completes =>
       IF CompletedMode = "work"
       THEN currentMode' = (IF sessions' % 4 = 0 THEN "longBreak"
                            ELSE "shortBreak")
       ELSE CompletedMode \in {"shortBreak", "longBreak"}
            /\ currentMode' = "work"]_vars

\* C1 witness: a tick has completed the fourth work session of the day.
C1_FourthWorkCompleted ==
  /\ lastOp = "tick" /\ completeCalls = 1
  /\ sessions = 4 /\ currentMode = "longBreak"

\* C2: each completion of a work interval adds 1 to sessions and
\* round(MODES.work.duration / 60), for the work duration configured at that
\* moment, to totalFocusMinutes, and stores both new values.
C2_WorkCompletionCredits ==
  [][(Completes /\ CompletedMode = "work") =>
       /\ sessions' = CountersBefore[1] + 1
       /\ totalFocusMinutes' =
            CountersBefore[2] + (2 * MODES'.work + 60) \div 120
       /\ storage'.pomodoro_sessions = Some(toString(sessions'))
       /\ storage'.pomodoro_focus_minutes =
            Some(toString(totalFocusMinutes'))]_vars

\* C2 witness: a work interval whose snapshot says 1500 s was completed while
\* the configured work duration was 7200 s, and 120 minutes were credited.
C2_CreditedAtConfiguredDuration ==
  /\ lastOp = "load" /\ completeCalls = 1
  /\ loadedFrom[1].pomodoro_timer_state[1].mode = "work"
  /\ loadedFrom[1].pomodoro_timer_state[1].totalDuration = 1500
  /\ MODES.work = 7200
  /\ sessions = 4 /\ totalFocusMinutes = 75 + 120

\* C3: a tick of a running timer with timeRemaining > 1 lowers timeRemaining
\* by exactly 1 and completes nothing; with timeRemaining = 1 it calls
\* completeSession() exactly once and leaves the timer not running, with no
\* callback, at the full duration of the next mode.
C3_TickCountsDownOrCompletes ==
  [][(lastOp' = "tick" /\ isRunning) =>
       /\ timeRemaining > 1 =>
            /\ timeRemaining' = timeRemaining - 1
            /\ completeCalls' = 0
            /\ currentMode' = currentMode /\ isRunning'
       /\ timeRemaining = 1 =>
            /\ completeCalls' = 1
            /\ ~isRunning' /\ DOMAIN timers' = {}
            /\ currentMode' # currentMode
            /\ timeRemaining' = MODES'[currentMode']
            /\ totalDuration' = MODES'[currentMode']]_vars

\* C3 witness: the tick at the last second has completed the interval.
C3_CompletedByLastTick ==
  /\ IsSnapshot /\ lastOp = "tick" /\ completeCalls = 1
  /\ ~isRunning /\ DOMAIN timers = {}
  /\ timeRemaining = totalDuration /\ timeRemaining = MODES[currentMode]

\* The snapshot the last page load found, when it found one that parses.
LoadedSnapshot == loadedFrom[1].pomodoro_timer_state[1]

LoadedWithSnapshot ==
  /\ IsSnapshot /\ lastOp = "load"
  /\ loadedFrom[1].pomodoro_timer_state # None
  /\ "corrupt" \notin DOMAIN LoadedSnapshot

\* C4: a page load that finds a snapshot whose endTimestamp is at or before
\* now takes mode and totalDuration from it, deletes it and calls
\* completeSession() exactly once, leaving no snapshot and a timer that is not
\* running; and no event completes more than once: a completion leaves
\* neither a snapshot nor a running timer that could complete the interval
\* again, and a page load completes only a snapshot it found.
C4_ExpiredSnapshotCompletedOnce ==
  /\ completeCalls <= 1
  /\ completeCalls = 1 =>
       storage.pomodoro_timer_state = None /\ ~isRunning /\ DOMAIN timers = {}
  /\ (lastOp = "load" /\ completeCalls = 1) => LoadedWithSnapshot
  /\ (LoadedWithSnapshot /\ LoadedSnapshot.endTimestamp <= DateNow) =>
       /\ completeCalls = 1
       /\ <<0, LoadedSnapshot.totalDuration>> \in shown
       /\ (LoadedSnapshot.mode = "work") = (currentMode # "work")
       /\ storage.pomodoro_timer_state = None
       /\ ~isRunning /\ DOMAIN timers = {}

\* C4 witness: a page load has found an expired snapshot and completed it.
C4_ExpiredSnapshotRestored ==
  /\ LoadedWithSnapshot /\ LoadedSnapshot.endTimestamp <= DateNow
  /\ completeCalls = 1 /\ storage.pomodoro_timer_state = None

\* What a page load leaves when it resumes the snapshot it found.
ResumedFromSnapshot ==
  /\ currentMode = LoadedSnapshot.mode
  /\ totalDuration = LoadedSnapshot.totalDuration
  /\ timeRemaining = (LoadedSnapshot.endTimestamp - DateNow) \div 1000
  /\ isRunning /\ completeCalls = 0
  /\ Cardinality(DOMAIN timers) = 1 /\ interval \in DOMAIN timers

\* C5 as amended: a page load that finds a snapshot whose endTimestamp is at
\* least one second after now takes mode and totalDuration from it, sets
\* timeRemaining = floor((endTimestamp - now) / 1000), marks the timer running
\* and starts exactly one tick callback.
C5_ResumesSnapshotASecondAhead ==
  (LoadedWithSnapshot /\ LoadedSnapshot.endTimestamp >= DateNow + 1000)
    => ResumedFromSnapshot

\* C5 witness: a page load has resumed a snapshot.
C5_SnapshotResumed ==
  /\ LoadedWithSnapshot /\ LoadedSnapshot.endTimestamp >= DateNow + 1000
  /\ isRunning /\ timeRemaining >= 1

\* C5 as stated: the same for every endTimestamp later than now.
C5_ResumesEverySnapshotAhead ==
  (LoadedWithSnapshot /\ LoadedSnapshot.endTimestamp > DateNow)
    => ResumedFromSnapshot

\* C6: once init() has run, after every event the snapshot is in storage
\* exactly when isRunning is true.
C6_SnapshotIffRunning ==
  (IsSnapshot /\ loaded) =>
    ((storage.pomodoro_timer_state # None) <=> isRunning)

\* C6 witness: start() has set the timer running and written the snapshot.
C6_SnapshotWrittenByStart ==
  /\ IsSnapshot /\ loaded /\ lastOp = "start"
  /\ isRunning /\ storage.pomodoro_timer_state # None

\* At most one tick callback is live, and one is live exactly when isRunning.
OneCallbackIffRunning ==
  /\ Cardinality(DOMAIN timers) <= 1
  /\ (DOMAIN timers # {}) <=> isRunning
  /\ isRunning => interval \in DOMAIN timers

\* start() on a running timer stops its callback; start() and pause() leave
\* timeRemaining alone.
StartTogglesCallback ==
  /\ (lastOp' = "start" /\ isRunning) => (~isRunning' /\ DOMAIN timers' = {})
  /\ lastOp' \in {"start", "open"} => timeRemaining' = timeRemaining

\* The previous lowering of timeRemaining, if any since it was set, is at
\* least a second old.
ASecondSinceDrop == sinceDrop = None \/ sinceDrop[1] >= 1000

\* A tick lowers timeRemaining by 1.
TickLowersByOne ==
  lastOp' = "tick" =>
    /\ <<timeRemaining - 1, totalDuration>> \in shown'
    /\ completeCalls' = 0 => timeRemaining' = timeRemaining - 1

\* A page load that resumes or completes the countdown the page was closed
\* with, showing less time than the page was closed with.
LoadLowers ==
  /\ lastOp' = "load" /\ counted # None
  /\ completeCalls' = 1 \/ (isRunning' /\ timeRemaining' < counted[1])

\* C7 as amended: at most one tick callback is live, one is live exactly when
\* isRunning is true, start() on a running timer stops the callback, and while
\* the page stays open the countdown is lowered only by ticks, each by 1 and
\* each at least a second after the one before, under any interleaving of
\* start, pause and reset.
C7_OneCallbackOneSecondApart ==
  /\ []OneCallbackIffRunning
  /\ [][/\ StartTogglesCallback
        /\ TickLowersByOne
        /\ lastOp' = "tick" => ASecondSinceDrop]_vars

\* C7 witness: start() on a timer that had ticked has stopped the callback.
C7_StartStoppedRunningTimer ==
  /\ loaded /\ lastOp = "start" /\ sinceDrop # None
  /\ ~isRunning /\ DOMAIN timers = {}

\* C7 as stated: the same, with the page loads that resume or complete a
\* running countdown among the steps that lower it.
C7_OneSecondApartAcrossReloads ==
  /\ []OneCallbackIffRunning
  /\ [][/\ StartTogglesCallback
        /\ TickLowersByOne
        /\ (lastOp' = "tick" \/ LoadLowers) => ASecondSinceDrop]_vars

\* C8 as stated, for the script version that restores a snapshot: in every
\* state of the open page and at every updateDisplay() call,
\* 0 <= timeRemaining <= totalDuration.
C8_TimeRemainingWithinInterval ==
  (IsSnapshot /\ loaded) =>
    /\ 0 <= timeRemaining /\ timeRemaining <= totalDuration
    /\ \A d \in shown : 0 <= d[1] /\ d[1] <= d[2]

\* The last event was a page load that found a stored date other than today.
LoadedOnNewDay == lastOp = "load" /\ loadedFrom[1].pomodoro_date # Some(Today)

\* The page load found a work snapshot that it takes for expired.
LoadedExpiredWork ==
  /\ LoadedWithSnapshot /\ LoadedSnapshot.mode = "work"
  /\ LoadedSnapshot.endTimestamp < DateNow + 1000

\* C9 as amended: when init() has finished after finding a stored date other
\* than today, the stored date is today and the stored counters equal the
\* ones in memory; both counters are 0, unless init() found a work snapshot
\* that had expired, which it completes after the reset: then sessions is 1
\* and totalFocusMinutes is round(MODES.work.duration / 60).
C9_DailyResetThenExpiredWork ==
  LoadedOnNewDay =>
    /\ storage.pomodoro_date = Some(Today)
    /\ storage.pomodoro_sessions = Some(toString(sessions))
    /\ storage.pomodoro_focus_minutes = Some(toString(totalFocusMinutes))
    /\ IF LoadedExpiredWork
       THEN sessions = 1
            /\ totalFocusMinutes = (2 * MODES.work + 60) \div 120
       ELSE sessions = 0 /\ totalFocusMinutes = 0

\* C9 witness: three sessions counted on an earlier day were reset.
C9_CountersOfEarlierDayReset ==
  /\ LoadedOnNewDay
  /\ loadedFrom[1].pomodoro_sessions = Some(<<"3">>)
  /\ sessions = 0 /\ storage.pomodoro_sessions = Some(<<"0">>)
  /\ totalFocusMinutes = 0

\* C9 as stated: both counters are 0 in memory and in storage, whatever else
\* storage held.
C9_DailyResetLeavesZero ==
  LoadedOnNewDay =>
    /\ sessions = 0 /\ totalFocusMinutes = 0
    /\ storage.pomodoro_sessions = Some(<<"0">>)
    /\ storage.pomodoro_focus_minutes = Some(<<"0">>)
    /\ storage.pomodoro_date = Some(Today)

\* C10: in every state of the open page and for each of the three modes m,
\* switchMode(m) leaves currentMode = m and timeRemaining = totalDuration =
\* the configured duration of m, and leaves isRunning and the tick callback
\* as they were.
C10_SwitchModeSetsFullDuration ==
  (IsSnapshot /\ loaded) =>
    \A m \in Modes :
      LET r == switchMode(Cur, m)
      IN  /\ r.currentMode = m
          /\ r.timeRemaining = MODES[m] /\ r.totalDuration = MODES[m]
          /\ r.MODES = MODES
          /\ r.isRunning = isRunning
          /\ r.interval = interval /\ r.timers = timers

\* C10 witness: a mode button has switched to longBreak under a changed
\* long-break setting.
C10_SwitchedToLongBreak ==
  /\ IsSnapshot /\ lastOp = "mode" /\ currentMode = "longBreak"
  /\ MODES.longBreak # DefaultModes.longBreak
  /\ timeRemaining = MODES.longBreak /\ totalDuration = MODES.longBreak
  /\ <<MODES.longBreak, MODES.longBreak>> \in shown


\* C11: switchMode(mode) with a value that is none of work, shortBreak and
\* longBreak changes nothing: the click on a mode button of such a data-mode
\* leaves currentMode, totalDuration and timeRemaining as they were, and
\* isRunning as the pause() before it left it.
C11_OtherModeRejected ==
  [][lastOp' = "othermode" =>
       /\ currentMode' = currentMode
       /\ totalDuration' = totalDuration
       /\ timeRemaining' = timeRemaining
       /\ isRunning' = FALSE]_vars

\* The minutes a save is to apply for the input string str of a field with
\* default d and range lo..hi: the default for 0 and for a string that is no
\* number, else the number brought into the range.
SavedMinutes(str, d, lo, hi) ==
  LET n == parseInt(str)
  IN  IF n = None \/ n[1] = 0 THEN d
      ELSE IF n[1] < lo THEN lo
      ELSE IF n[1] > hi THEN hi
      ELSE n[1]

SavedTriple(i) ==
  [work       |-> SavedMinutes(i.work, DefaultWorkMinutes, MinMinutes,
                               MaxWorkMinutes),
   shortBreak |-> SavedMinutes(i.shortBreak, DefaultShortBreakMinutes,
                               MinMinutes, MaxShortBreakMinutes),
   longBreak  |-> SavedMinutes(i.longBreak, DefaultLongBreakMinutes,
                               MinMinutes, MaxLongBreakMinutes)]

\* C12: after a save, for the strings of the three input fields, MODES holds
\* the clamped or defaulted minutes (times 60) and the stored settings entry
\* holds the same minutes: work 1..120, short break 1..30, long break 1..60,
\* and 25/5/15 for an input of 0 or one that is no number.
C12_SaveClampsAndDefaults ==
  lastOp = "save" =>
    \E i \in InputTriples :
      /\ MODES = [m \in Modes |-> SavedTriple(i)[m] * SecondsPerMinute]
      /\ storage.pomodoro_settings =
           Some([m \in Modes |-> Some(SavedTriple(i)[m])])

\* The range of a mode's duration, in seconds.
DurationRange(m) ==
  (MinMinutes * SecondsPerMinute) ..
  ((CASE m = "work" -> MaxWorkMinutes
      [] m = "shortBreak" -> MaxShortBreakMinutes
      [] m = "longBreak" -> MaxLongBreakMinutes) * SecondsPerMinute)

\* The settings entry the page load found, when it parses.
LoadedSettings == loadedFrom[1].pomodoro_settings[1]

\* C13: in every state each configured duration is a whole number of seconds
\* within its range (work 60..7200, shortBreak 60..1800, longBreak 60..3600);
\* and a page load that finds a settings entry applies each field that is a
\* number within its range and keeps the default for a field that is
\* missing, not a number or out of range.
C13_DurationsWithinRanges ==
  /\ \A m \in Modes : MODES[m] \in DurationRange(m)
  /\ (/\ lastOp = "load"
      /\ loadedFrom[1].pomodoro_settings # None
      /\ "corrupt" \notin DOMAIN LoadedSettings)
       => \A m \in Modes :
            MODES[m] =
              IF /\ LoadedSettings[m] # None
                 /\ LoadedSettings[m][1] * SecondsPerMinute \in DurationRange(m)
              THEN LoadedSettings[m][1] * SecondsPerMinute
              ELSE DefaultModes[m]

\* C14: a tick that completes a session while the sound player, the
\* notification dispatcher or a storage write fails leaves the timer stopped
\* with no callback, in the next mode at that mode's full duration, and for
\* a work interval with sessions raised by one and the focus minutes by the
\* configured work minutes.
C14_CompletionSurvivesFailures ==
  [][lastOp' = "tickfailing" =>
       /\ ~isRunning' /\ DOMAIN timers' = {}
       /\ currentMode' = (IF currentMode = "work" THEN NextMode(sessions + 1)
                          ELSE "work")
       /\ timeRemaining' = MODES[currentMode']
       /\ totalDuration' = MODES[currentMode']
       /\ currentMode = "work" =>
            /\ sessions' = sessions + 1
            /\ totalFocusMinutes' =
                 totalFocusMinutes + MathRound(MODES.work, SecondsPerMinute)]_vars

\* The page load found a snapshot entry that JSON.parse() rejects.
LoadedCorruptSnapshot ==
  /\ IsSnapshot /\ lastOp = "load"
  /\ loadedFrom[1].pomodoro_timer_state = Some([corrupt |-> TRUE])

C16_StartResumesOrPauses ==
  [][lastOp' = "start" =>
       IF ~isRunning
       THEN /\ isRunning'
            /\ timeRemaining' = timeRemaining
            /\ currentMode' = currentMode
            /\ totalDuration' = totalDuration
            /\ sessions' = sessions
            /\ totalFocusMinutes' = totalFocusMinutes
            /\ MODES' = MODES
       ELSE Cur' = (IF IsSnapshot THEN pause(Begin) ELSE pauseTL(Begin))]_vars

\* C16 witness: start() has resumed an interval that was stopped one second
\* before its end.
C16_ResumedMidInterval ==
  /\ IsSnapshot /\ loaded /\ lastOp = "start" /\ isRunning
  /\ timeRemaining = 1 /\ totalDuration = DefaultModes.work
  /\ DOMAIN timers # {}

\* C17: reset(), from any state of the open page, leaves the timer not
\* running, with no tick callback and no stored snapshot, at timeRemaining =
\* totalDuration, with currentMode, totalDuration, sessions and
\* totalFocusMinutes as they were; the state it leaves is the one pause()
\* followed by timeRemaining := totalDuration leaves.
C17_ResetIsPauseThenFullDuration ==
  [][lastOp' = "reset" =>
       /\ ~isRunning' /\ DOMAIN timers' = {}
       /\ storage'.pomodoro_timer_state = None
       /\ timeRemaining' = totalDuration
       /\ currentMode' = currentMode
       /\ totalDuration' = totalDuration
       /\ sessions' = sessions
       /\ totalFocusMinutes' = totalFocusMinutes
       /\ LET p == IF IsSnapshot THEN pause(Begin) ELSE pauseTL(Begin)
          IN  [Cur' EXCEPT !.shown = {}] =
                [p EXCEPT !.timeRemaining = p.totalDuration]]_vars

\* C17 witness: after time has passed, reset() has left a short break
\* stopped at its full 300 s with no snapshot stored.
C17_BreakResetToFull ==
  /\ IsSnapshot /\ loaded /\ lastOp = "reset"
  /\ currentMode = "shortBreak" /\ MODES.shortBreak = DefaultModes.shortBreak
  /\ timeRemaining = DefaultModes.shortBreak
  /\ ~isRunning /\ storage.pomodoro_timer_state = None
  /\ elapsed > 0

\* C18: in every state of the open page pause() called twice leaves the
\* state pause() called once leaves (isRunning, callback, snapshot,
\* timeRemaining, currentMode, totalDuration, counters), and on a timer that
\* is not running pause() changes nothing.
C18_PauseIdempotent ==
  loaded =>
    /\ IsSnapshot => /\ pause(pause(Cur)) = pause(Cur)
                     /\ ~isRunning => pause(Cur) = Cur
    /\ ~IsSnapshot => /\ pauseTL(pauseTL(Cur)) = pauseTL(Cur)
                      /\ ~isRunning => pauseTL(Cur) = Cur

\* C18 witness: the settings button has paused an interval on its way, so
\* the timer is not running, with no callback and no snapshot, one second
\* before its end.
C18_PausedMidInterval ==
  /\ IsSnapshot /\ loaded /\ lastOp = "open"
  /\ ~isRunning /\ DOMAIN timers = {} /\ storage.pomodoro_timer_state = None
  /\ timeRemaining = 1 /\ totalDuration = DefaultModes.shortBreak

\* A step of the open page that completes a work interval.
CompletesWork == lastOp' = "tick" /\ completeCalls' > 0 /\ currentMode = "work"

\* C19: while the page stays open, sessions and totalFocusMinutes never
\* decrease and only the completion of a work interval changes them (it
\* adds one session): break completions, start, pause, reset, mode
\* switches, the settings dialog and the change of the calendar day leave
\* both as they are, and no step of the open page redoes the daily reset
\* (the stored date is not rewritten).
C19_CountersChangeOnlyByWorkCompletion ==
  [][(loaded /\ loaded') =>
       /\ IF CompletesWork
          THEN /\ sessions' = sessions + 1
               /\ totalFocusMinutes' >= totalFocusMinutes
          ELSE /\ sessions' = sessions
               /\ totalFocusMinutes' = totalFocusMinutes
       /\ lastOp' # "midnight" => storage'.pomodoro_date = storage.pomodoro_date]_vars

\* C19 witness: the day has changed while the page was open, and a tick has
\* then completed the fourth work interval on top of the three counted
\* before.
C19_CountedOnAfterMidnight ==
  /\ loaded /\ lastOp = "tick" /\ completeCalls = 1
  /\ storage.pomodoro_date = Some("earlier")
  /\ sessions = 4 /\ totalFocusMinutes > 75

\* C20: saveSettings() rewrites totalDuration and timeRemaining only when
\* the timer is not running: no save button click that finds the countdown
\* running, after whatever settings, start and Space events, changes its
\* timeRemaining or totalDuration.
C20_SaveLeavesRunningCountdown ==
  [][(lastOp' = "save" /\ isRunning) =>
       /\ timeRemaining' = timeRemaining
       /\ totalDuration' = totalDuration]_vars

\* C21: while the timer of the snapshot version is running, the stored
\* snapshot names currentMode and totalDuration, and its endTimestamp is
\* now + timeRemaining seconds to within the second between two ticks (a
\* tick that is due has not run yet, a resumed callback starts anew), so
\* that a reload resumes the mode and the remaining time the page shows.
C21_SnapshotDescribesRunningInterval ==
  (IsSnapshot /\ loaded /\ isRunning) =>
    /\ HasSnapshot
    /\ StoredSnapshot.mode = currentMode
    /\ StoredSnapshot.totalDuration = totalDuration
    /\ StoredSnapshot.endTimestamp - (DateNow + timeRemaining * MsPerSecond)
         \in (0 - MsPerSecond) .. MsPerSecond

\* C22: currentMode is one of work, shortBreak, longBreak in every state,
\* also after a page load that restores a parseable snapshot whose mode is
\* none of the three, with or without a totalDuration field.
C22_CurrentModeIsAMode == currentMode \in Modes

\* C23: in every state of the open page (after init() and after every
\* event handler) the stored sessions and focus-minutes entries are the
\* decimal strings of sessions and totalFocusMinutes, and the script's top
\* level would read the same two numbers back from them on a reload.
C23_StoredCountersEqualMemory ==
  loaded =>
    /\ storage.pomodoro_sessions = Some(toString(sessions))
    /\ storage.pomodoro_focus_minutes = Some(toString(totalFocusMinutes))
    /\ TopLevel(storage).sessions = sessions
    /\ TopLevel(storage).totalFocusMinutes = totalFocusMinutes

\* C23 witness: a tick has completed the fourth work interval of 25 minutes
\* and storage holds "4" and "100".
C23_FourthSessionStored ==
  /\ loaded /\ lastOp = "tick" /\ completeCalls = 1
  /\ sessions = 4 /\ totalFocusMinutes = 100
  /\ storage.pomodoro_sessions = Some(<<"4">>)
  /\ storage.pomodoro_focus_minutes = Some(<<"1", "0", "0">>)

\* A tick has run completeSession() and left the timer idle at the full
\* duration of its mode.
CompletedAndIdle ==
  /\ lastOp = "tick" /\ completeCalls > 0
  /\ ~isRunning /\ DOMAIN timers = {}
  /\ timeRemaining = MODES[currentMode] /\ totalDuration = MODES[currentMode]

\* C24: with the tick callback firing as long as it is live and no user
\* action after the start, a running timer leads to the completion of its
\* interval: completeSession() has run and the timer is idle at the full
\* duration of the next mode, a break after work and work after a break.
C24_RunningLeadsToCompletion ==
  /\ (loaded /\ isRunning /\ currentMode = "work")
       ~> (CompletedAndIdle /\ currentMode \in {"shortBreak", "longBreak"})
  /\ (loaded /\ isRunning /\ currentMode # "work")
       ~> (CompletedAndIdle /\ currentMode = "work")

\* C24 witness: a work interval at the default duration has been counted
\* down to its completion and credited as the first session of the day.
C24_FirstIntervalCountedDown ==
  /\ IsSnapshot /\ CompletedAndIdle
  /\ sessions = 1 /\ totalFocusMinutes = DefaultWorkMinutes
  /\ storage.pomodoro_settings = None
  /\ currentMode = "shortBreak"

=============================================================================
